---- MODULE Spec2Model ----
(***************************************************************************)
(* lonboard: conversion of WKB-encoded geometry columns of an Arrow table  *)
(* into native GeoArrow columns (lonboard/_geoarrow/parse_wkb.py), and the *)
(* accessor length validators of the map layers (lonboard/layer.py).       *)
(*                                                                         *)
(* parse_wkb_table and parse_wkb_column are pure                            *)
(* functions: each is an operator computed as the code computes it, and a  *)
(* specification draws its inputs from bounded sets and applies it.  A     *)
(* call either returns a value or raises; an operator whose callee is not  *)
(* determined by the sources yields the set of its possible outcomes.      *)
(***************************************************************************)
EXTENDS Integers, Sequences, FiniteSets, TLC

VARIABLES input, output, layer

vars == <<input, output, layer>>

(***************************************************************************)
(* Bounds of the checked inputs.                                           *)
(***************************************************************************)
\* columns of a table handed to parse_wkb_table
MaxCols == 2
\* rows of a column handed to parse_wkb_column
MaxRows == 3
\* chunks of a column handed to parse_wkb_column
MaxChunks == 3
\* row count of a layer's table
MaxTableLen == 2

(***************************************************************************)
(* Generic helpers.                                                        *)
(***************************************************************************)
Min(a, b) == IF a < b THEN a ELSE b

SeqsUpTo(S, n) == UNION {[1..k -> S] : k \in 0..n}

RECURSIVE SumSeq(_)
SumSeq(s) == IF s = <<>> THEN 0 ELSE Head(s) + SumSeq(Tail(s))

RECURSIVE Concat(_)
Concat(ss) == IF ss = <<>> THEN <<>> ELSE Head(ss) \o Concat(Tail(ss))

(***************************************************************************)
(* Outcomes of a call: a returned value, or a raised exception.  An        *)
(* exception carries what its raiser knows: its kind, and the name of the  *)
(* column it is about when the raiser was given one.                       *)
(***************************************************************************)
NoColumnName == "<unnamed>"

Ok(v) == [ok |-> TRUE, value |-> v, kind |-> "", column |-> NoColumnName]

Raise(kind) == [ok |-> FALSE, value |-> <<>>, kind |-> kind, column |-> NoColumnName]

Pending == [ok |-> FALSE, value |-> <<>>, kind |-> "pending", column |-> NoColumnName]

Raised(o) == ~o.ok /\ o.kind # "pending"

(***************************************************************************)
(* Field metadata: a map from byte-string keys to byte-string values, or   *)
(* None.                                                                   *)
(***************************************************************************)
EXTENSION_NAME_WKB == "geoarrow.wkb"

EXTENSION_NAME_OGC_WKB == "ogc.wkb"

EXT_NAME_KEY == "ARROW:extension:name"

CRS_KEY == "ARROW:extension:metadata.crs"

None == "None"

Absent == "<absent>"

\* a metadata map holding the extension name and the CRS that are not Absent
Metadata(ext, crs) ==
    [k \in ({EXT_NAME_KEY} \cap (IF ext = Absent THEN {} ELSE {EXT_NAME_KEY}))
           \cup ({CRS_KEY} \cap (IF crs = Absent THEN {} ELSE {CRS_KEY}))
       |-> IF k = EXT_NAME_KEY THEN ext ELSE crs]

NoMetadata == [present |-> FALSE, map |-> Metadata(Absent, Absent)]

WithMetadata(ext, crs) == [present |-> TRUE, map |-> Metadata(ext, crs)]

Field(name, metadata) == [name |-> name, metadata |-> metadata]

\* Python truthiness of field.metadata: None and the empty map are falsy
metadata_truthy(field) == field.metadata.present /\ DOMAIN field.metadata.map # {}

\* field.metadata.get(key)
metadata_get(field, key) ==
    IF key \in DOMAIN field.metadata.map THEN field.metadata.map[key] ELSE None

(***************************************************************************)
(* Arrow arrays: a type and rows.  A chunked array is a sequence of        *)
(* arrays (its chunks).                                                    *)
(***************************************************************************)
Array(type, rows) == [type |-> type, rows |-> rows]

ChunkLengths(column) == [i \in DOMAIN column |-> Len(column[i].rows)]

ChunkRows(column) == [i \in DOMAIN column |-> column[i].rows]

\* len(column)
ColumnLength(column) == SumSeq(ChunkLengths(column))

(***************************************************************************)
(* WKB payloads and their decoding.                                        *)
(***************************************************************************)
NullPayload == [kind |-> "null", wkb_type |-> "", xy |-> 0]

MalformedPayload == [kind |-> "malformed", wkb_type |-> "", xy |-> 0]

Wkb(type, xy) == [kind |-> "wkb", wkb_type |-> type, xy |-> xy]

NoneGeometry == [geom_type |-> None, coords |-> <<>>]

\* the geometry object of one decodable payload
decode_payload(p) ==
    IF p.kind = "null" THEN NoneGeometry
    ELSE [geom_type |-> p.wkb_type, coords |-> <<p.xy>>]

from_wkb_ignore_invalid(column) ==
    LET flat == Concat(ChunkRows(column))
    IN Ok([i \in DOMAIN flat |->
            IF flat[i].kind = "malformed" THEN NoneGeometry ELSE decode_payload(flat[i])])

\* shapely.from_wkb(column): the whole column in one batch, in row order;
\* a null payload decodes to None, a malformed one raises
from_wkb(column) ==
    LET flat == Concat(ChunkRows(column))
    IN IF \E i \in DOMAIN flat : flat[i].kind = "malformed"
       THEN Raise("MalformedPayload")
       ELSE Ok([i \in DOMAIN flat |-> decode_payload(flat[i])])

(***************************************************************************)
(* The geometry array constructor and the CRS lookup.                      *)
(***************************************************************************)
GeometryTypes ==
    {"Point", "LineString", "Polygon", "MultiPoint", "MultiLineString", "MultiPolygon"}

MultiVariant(t) ==
    CASE t = "Point" -> "MultiPoint"
      [] t = "LineString" -> "MultiLineString"
      [] t = "Polygon" -> "MultiPolygon"
      [] OTHER -> t

ExtensionNameOf(t) ==
    CASE t = "Point" -> "geoarrow.point"
      [] t = "LineString" -> "geoarrow.linestring"
      [] t = "Polygon" -> "geoarrow.polygon"
      [] t = "MultiPoint" -> "geoarrow.multipoint"
      [] t = "MultiLineString" -> "geoarrow.multilinestring"
      [] OTHER -> "geoarrow.multipolygon"

NativeExtensionNames == {ExtensionNameOf(t) : t \in GeometryTypes}

\* the names the constructor may give the field it builds: it is handed the
\* geometries and the CRS only
ConstructedFieldNames == {"geom", "geometry"}

get_field_crs(field) ==
    IF field.metadata.present /\ CRS_KEY \in DOMAIN field.metadata.map
    THEN field.metadata.map[CRS_KEY]
    ELSE None

\* one row of the native array: validity and coordinates
geometry_row(g) == [valid |-> g.geom_type # None, coords |-> g.coords]

construct_geometry_array(shapely_arr, crs_str) ==
    LET types == {shapely_arr[i].geom_type :
                    i \in {j \in DOMAIN shapely_arr : shapely_arr[j].geom_type # None}}
        build(t, name) ==
            Ok([field |-> Field(name, WithMetadata(ExtensionNameOf(t),
                                    IF crs_str = None THEN Absent ELSE crs_str)),
                array |-> Array(ExtensionNameOf(t),
                                [i \in DOMAIN shapely_arr |-> geometry_row(shapely_arr[i])])])
        widened == {m \in GeometryTypes : \A t \in types : t = m \/ MultiVariant(t) = m}
    IN IF types = {}
       THEN {Raise("NoGeometryType")}
            \cup {build(t, n) : t \in GeometryTypes, n \in ConstructedFieldNames}
       ELSE IF Cardinality(types) = 1
       THEN {build(t, n) : t \in types, n \in ConstructedFieldNames}
       ELSE IF widened # {}
       THEN {build(m, n) : m \in widened, n \in ConstructedFieldNames}
       ELSE {Raise("IncompatibleGeometryMix")}

(***************************************************************************)
(* parse_wkb_column: decode, construct, slice back into the chunks.        *)
(***************************************************************************)
RECURSIVE chunk_offsets_loop(_, _)
chunk_offsets_loop(offsets, chunks) ==
    IF chunks = <<>> THEN offsets
    ELSE chunk_offsets_loop(
            Append(offsets, Len(Head(chunks).rows) + offsets[Len(offsets)]),
            Tail(chunks))

\* chunk_offsets after the loop over column.chunks
chunk_offsets(column) == chunk_offsets_loop(<<0>>, column)

\* pyarrow Array.slice(offset, length): offset and length are clipped to the array
slice(arr, offset, length) ==
    LET start == Min(offset, Len(arr.rows))
        stop == Min(start + length, Len(arr.rows))
    IN Array(arr.type, SubSeq(arr.rows, start + 1, stop))

slice_chunks_to_end_offset(geom_arr, offsets) ==
    [i \in 1..(Len(offsets) - 1) |-> slice(geom_arr, offsets[i], offsets[i + 1])]

\* chunks after the loop over zip(chunk_offsets[:-1], chunk_offsets[1:])
slice_chunks(geom_arr, offsets) ==
    [i \in 1..(Len(offsets) - 1) |->
        slice(geom_arr, offsets[i], offsets[i + 1] - offsets[i])]

\* pa.chunked_array(chunks), no type given: needs a chunk to take the type
\* from, and chunks of one type
chunked_array(chunks) ==
    IF chunks = <<>> THEN Raise("EmptyChunkList")
    ELSE IF \E i \in DOMAIN chunks : chunks[i].type # chunks[1].type
    THEN Raise("MixedChunkTypes")
    ELSE Ok(chunks)

\* the part of parse_wkb_column after the constructor's return
rechunk(geom_arr, column) ==
    chunked_array(slice_chunks(geom_arr, chunk_offsets(column)))

\* what parse_wkb_column returns for one outcome of the constructor
column_result(constructed, column) ==
    IF ~constructed.ok THEN constructed
    ELSE LET chunks == rechunk(constructed.value.array, column)
         IN IF ~chunks.ok THEN chunks
            ELSE Ok([field |-> constructed.value.field, column |-> chunks.value])

parse_wkb_column_drop_crs(field, column) ==
    LET shapely_arr == from_wkb(column)
    IN IF ~shapely_arr.ok THEN {shapely_arr}
       ELSE {column_result(c, column) :
                c \in construct_geometry_array(shapely_arr.value, None)}

parse_wkb_column_per_chunk(field, column) ==
    LET crs_str == get_field_crs(field)
        one(chunk) ==
            LET s == from_wkb(<<chunk>>)
            IN IF ~s.ok THEN s
               ELSE LET cs == construct_geometry_array(s.value, crs_str)
                    IN IF \E c \in cs : c.ok
                       THEN CHOOSE c \in cs : c.ok /\ c.value.field.name = "geometry"
                       ELSE CHOOSE c \in cs : TRUE
        each == [i \in DOMAIN column |-> one(column[i])]
    IN IF \E i \in DOMAIN each : ~each[i].ok
       THEN {each[CHOOSE i \in DOMAIN each : ~each[i].ok]}
       ELSE LET chunks == chunked_array([i \in DOMAIN each |-> each[i].value.array])
            IN IF ~chunks.ok THEN {chunks}
               ELSE {Ok([field |-> each[1].value.field, column |-> chunks.value])}

parse_wkb_column(field, column) ==
    LET crs_str == get_field_crs(field)
        shapely_arr == from_wkb(column)
    IN IF ~shapely_arr.ok THEN {shapely_arr}
       ELSE {column_result(c, column) :
                c \in construct_geometry_array(shapely_arr.value, crs_str)}

(***************************************************************************)
(* parse_wkb_table: the scan over the fields of a table.                   *)
(***************************************************************************)
Table(fields, columns) == [fields |-> fields, columns |-> columns]

\* table.num_rows
num_rows(table) == IF table.columns = <<>> THEN 0 ELSE ColumnLength(table.columns[1])

wkb_names_any_geoarrow ==
    {EXTENSION_NAME_WKB, EXTENSION_NAME_OGC_WKB} \cup NativeExtensionNames

wkb_names == {EXTENSION_NAME_WKB, EXTENSION_NAME_OGC_WKB}

\* pyarrow Table.set_column(i, field, column): a new table; the column must
\* have the table's row count
set_column(table, i, new_field, new_column) ==
    IF ColumnLength(new_column) # num_rows(table)
    THEN Raise("ArrowInvalid")
    ELSE Ok(Table([table.fields EXCEPT ![i] = new_field],
                  [table.columns EXCEPT ![i] = new_column]))

\* the loop body from field index field_idx (1-based) on, then the return
RECURSIVE parse_wkb_table_from(_, _)
parse_wkb_table_from(table, field_idx) ==
    IF field_idx > Len(table.fields) THEN {Ok(table)}
    ELSE LET field == table.fields[field_idx]
             column == table.columns[field_idx]
             replaced(r) ==
                IF ~r.ok THEN {r}
                ELSE LET t == set_column(table, field_idx, r.value.field, r.value.column)
                     IN IF ~t.ok THEN {t}
                        ELSE parse_wkb_table_from(t.value, field_idx + 1)
         IN IF ~metadata_truthy(field)
            THEN parse_wkb_table_from(table, field_idx + 1)
            ELSE IF metadata_get(field, EXT_NAME_KEY) \in wkb_names
            THEN UNION {replaced(r) : r \in parse_wkb_column(field, column)}
            ELSE parse_wkb_table_from(table, field_idx + 1)

parse_wkb_table(table) == parse_wkb_table_from(table, 1)

(***************************************************************************)
(* The layers' accessor validators.                                        *)
(***************************************************************************)
LayerClasses == {"ScatterplotLayer", "PathLayer", "SolidPolygonLayer"}

AccessorsOf(cls) ==
    CASE cls = "ScatterplotLayer" ->
            {"get_radius", "get_fill_color", "get_line_color", "get_line_width"}
      [] cls = "PathLayer" -> {"get_color", "get_width"}
      [] OTHER -> {"get_elevation", "get_fill_color", "get_line_color"}

\* a value proposed for an accessor: a pyarrow Array or ChunkedArray of some
\* length, or anything else (a number, a colour)
Scalar == [kind |-> "scalar", len |-> 0]

ArrowValue(kind, n) == [kind |-> kind, len |-> n]

is_arrow_array(value) == value.kind \in {"Array", "ChunkedArray"}

\* _validate_<accessor>_length(self, proposal): raise TraitError or return the value
validate_length(table_len, proposal) ==
    IF is_arrow_array(proposal) /\ proposal.len # table_len
    THEN Raise("TraitError")
    ELSE Ok(proposal)

(***************************************************************************)
(* The inputs the specifications draw from.                                *)
(***************************************************************************)
Payloads ==
    {NullPayload, MalformedPayload,
     Wkb("Point", 1), Wkb("MultiPoint", 2), Wkb("LineString", 3)}

BinaryChunk(rows) == Array("binary", rows)

\* rows cut into chunks of the lengths lens
RECURSIVE Split(_, _)
Split(rows, lens) ==
    IF lens = <<>> THEN <<>>
    ELSE <<BinaryChunk(SubSeq(rows, 1, Head(lens)))>>
         \o Split(SubSeq(rows, Head(lens) + 1, Len(rows)), Tail(lens))

LengthSeqs == {ls \in SeqsUpTo(0..MaxRows, MaxChunks) : SumSeq(ls) <= MaxRows}

FieldMetadatas ==
    {NoMetadata,
     WithMetadata(Absent, Absent),
     WithMetadata(Absent, "EPSG:4326"),
     WithMetadata(EXTENSION_NAME_WKB, Absent),
     WithMetadata(EXTENSION_NAME_WKB, "EPSG:4326"),
     WithMetadata(EXTENSION_NAME_OGC_WKB, "OGC:CRS84"),
     WithMetadata("geoarrow.point", Absent)}

ColumnFields == {Field("geom", m) : m \in FieldMetadatas}

\* the columns of the tables: two rows each
TableColumns ==
    {<<BinaryChunk(<<Wkb("Point", 1), Wkb("Point", 1)>>)>>,
     <<BinaryChunk(<<Wkb("Point", 1)>>), BinaryChunk(<<Wkb("MultiPoint", 2)>>)>>,
     <<BinaryChunk(<<Wkb("Point", 1), Wkb("LineString", 3)>>)>>,
     <<BinaryChunk(<<MalformedPayload>>), BinaryChunk(<<Wkb("Point", 1)>>)>>,
     <<BinaryChunk(<<NullPayload, NullPayload>>)>>}

TableFields ==
    {Field(n, m) :
        n \in {"geom", "geometry"},
        m \in {NoMetadata,
               WithMetadata(Absent, "EPSG:4326"),
               WithMetadata(EXTENSION_NAME_WKB, "EPSG:4326"),
               WithMetadata(EXTENSION_NAME_OGC_WKB, Absent),
               WithMetadata("geoarrow.point", Absent)}}

AccessorValues ==
    {Scalar} \cup {ArrowValue(k, n) : k \in {"Array", "ChunkedArray"}, n \in 0..MaxTableLen}

NoLayer == [cls |-> "", table_len |-> 0, accessors |-> <<>>, error |-> ""]

(***************************************************************************)
(* Spec: parse_wkb_table applied to a table.                               *)
(***************************************************************************)
\* every table of at most MaxCols columns
Init ==
    /\ \E k \in 0..MaxCols :
          \E fs \in [1..k -> TableFields], cs \in [1..k -> TableColumns] :
              input = Table(fs, cs)
    /\ output = Pending
    /\ layer = NoLayer

TableReturns ==
    /\ output = Pending
    /\ \E o \in parse_wkb_table(input) : o.ok /\ output' = o
    /\ UNCHANGED <<input, layer>>

TableRaises ==
    /\ output = Pending
    /\ \E o \in parse_wkb_table(input) : ~o.ok /\ output' = o
    /\ UNCHANGED <<input, layer>>

Next == TableReturns \/ TableRaises

Spec == Init /\ [][Next]_vars

(***************************************************************************)
(* SpecColumn: parse_wkb_column applied to a field and its column.         *)
(***************************************************************************)
\* every field, and every column of at most MaxChunks chunks and MaxRows rows
InitColumn ==
    /\ \E field \in ColumnFields, rows \in SeqsUpTo(Payloads, MaxRows), ls \in LengthSeqs :
          /\ SumSeq(ls) = Len(rows)
          /\ input = [field |-> field, column |-> Split(rows, ls)]
    /\ output = Pending
    /\ layer = NoLayer

ColumnReturns ==
    /\ output = Pending
    /\ \E o \in parse_wkb_column(input.field, input.column) : o.ok /\ output' = o
    /\ UNCHANGED <<input, layer>>

ColumnRaises ==
    /\ output = Pending
    /\ \E o \in parse_wkb_column(input.field, input.column) : ~o.ok /\ output' = o
    /\ UNCHANGED <<input, layer>>

NextColumn == ColumnReturns \/ ColumnRaises

SpecColumn == InitColumn /\ [][NextColumn]_vars

(***************************************************************************)
(* SpecLayer: assignments to a layer's accessors and table.                *)
(***************************************************************************)
InitLayer ==
    /\ input = <<>>
    /\ output = Pending
    /\ \E cls \in LayerClasses, n \in 0..MaxTableLen :
          layer = [cls |-> cls, table_len |-> n,
                   accessors |-> [a \in AccessorsOf(cls) |-> Scalar], error |-> ""]

\* layer.<accessor> = value, accepted by the validator
SetAccessorAccepted ==
    /\ \E a \in AccessorsOf(layer.cls), v \in AccessorValues :
          /\ validate_length(layer.table_len, v).ok
          /\ layer' = [layer EXCEPT !.accessors[a] = validate_length(layer.table_len, v).value,
                                    !.error = ""]
    /\ UNCHANGED <<input, output>>

\* layer.<accessor> = value, rejected with a TraitError
SetAccessorRejected ==
    /\ \E a \in AccessorsOf(layer.cls), v \in AccessorValues :
          /\ ~validate_length(layer.table_len, v).ok
          /\ layer' = [layer EXCEPT !.error = a]
    /\ UNCHANGED <<input, output>>

\* layer.table = table
SetTable ==
    /\ \E n \in 0..MaxTableLen : layer' = [layer EXCEPT !.table_len = n, !.error = ""]
    /\ UNCHANGED <<input, output>>

NextLayer == SetAccessorAccepted \/ SetAccessorRejected \/ SetTable

SpecLayer == InitLayer /\ [][NextLayer]_vars

(***************************************************************************)
(* What the claims speak of, stated on the inputs and outputs alone.       *)
(***************************************************************************)
Settled == output # Pending

\* the field carries one of the two accepted binary-geometry tags
AcceptedTag(field) ==
    /\ field.metadata.present
    /\ EXT_NAME_KEY \in DOMAIN field.metadata.map
    /\ field.metadata.map[EXT_NAME_KEY] \in {"geoarrow.wkb", "ogc.wkb"}

\* the field carries a native geometry tag
NativeTag(field) ==
    /\ field.metadata.present
    /\ EXT_NAME_KEY \in DOMAIN field.metadata.map
    /\ field.metadata.map[EXT_NAME_KEY] \in
          {"geoarrow.point", "geoarrow.linestring", "geoarrow.polygon",
           "geoarrow.multipoint", "geoarrow.multilinestring", "geoarrow.multipolygon"}

\* the payloads of a column, in row order
RowsOf(column) == Concat(ChunkRows(column))

HasMalformed(column) ==
    \E r \in DOMAIN RowsOf(column) : RowsOf(column)[r].kind = "malformed"

WkbTypes(column) ==
    {RowsOf(column)[r].wkb_type :
        r \in {q \in DOMAIN RowsOf(column) : RowsOf(column)[q].kind = "wkb"}}

HoldsGeometry(column) == WkbTypes(column) # {}

Compatible(column) ==
    \/ WkbTypes(column) \subseteq {"Point", "MultiPoint"}
    \/ WkbTypes(column) \subseteq {"LineString", "MultiLineString"}
    \/ WkbTypes(column) \subseteq {"Polygon", "MultiPolygon"}

Unconvertible(column) == HasMalformed(column) \/ ~Compatible(column)

SameChunking(in, out) ==
    /\ Len(out) = Len(in)
    /\ \A i \in DOMAIN in : Len(out[i].rows) = Len(in[i].rows)
    /\ ColumnLength(out) = ColumnLength(in)

\* the native row a payload stands for
ExpectedRow(p) ==
    [valid |-> p.kind # "null", coords |-> IF p.kind = "null" THEN <<>> ELSE <<p.xy>>]

\* the tag of the narrowest layout that holds every type of a compatible set
ExpectedTag(types) ==
    IF types \subseteq {"Point"} THEN "geoarrow.point"
    ELSE IF types \subseteq {"Point", "MultiPoint"} THEN "geoarrow.multipoint"
    ELSE IF types \subseteq {"LineString"} THEN "geoarrow.linestring"
    ELSE IF types \subseteq {"LineString", "MultiLineString"} THEN "geoarrow.multilinestring"
    ELSE IF types \subseteq {"Polygon"} THEN "geoarrow.polygon"
    ELSE "geoarrow.multipolygon"

\* one chunk holds only MultiPoint payloads, another only Point payloads, and
\* the column holds nothing but points, multipoints and nulls
WideningScenario(column) ==
    /\ ~HasMalformed(column)
    /\ WkbTypes(column) \subseteq {"Point", "MultiPoint"}
    /\ \E i \in DOMAIN column, j \in DOMAIN column :
          /\ column[i].rows # <<>>
          /\ column[j].rows # <<>>
          /\ \A r \in DOMAIN column[i].rows : column[i].rows[r] = Wkb("MultiPoint", 2)
          /\ \A r \in DOMAIN column[j].rows : column[j].rows[r] = Wkb("Point", 1)

HasCrs(field) == field.metadata.present /\ CRS_KEY \in DOMAIN field.metadata.map

(***************************************************************************)
(* C1.                                                                     *)
(***************************************************************************)
\* C1: for every tagged column whose payloads decode to geometries of
\* compatible types, with any number of chunks (none included),
\* parse_wkb_column returns a chunked column with the same number of chunks
\* and the same row count in each chunk.  Columns that have chunks but hold
\* no geometry at all, whose geometry type is left open, are left aside.
C1_EveryColumnReturned ==
    (/\ Settled
     /\ AcceptedTag(input.field)
     /\ ~HasMalformed(input.column)
     /\ Compatible(input.column)
     /\ (HoldsGeometry(input.column) \/ input.column = <<>>))
    => (output.ok /\ SameChunking(input.column, output.value.column))

(***************************************************************************)
(* C2.                                                                     *)
(***************************************************************************)
\* C2: a column whose field has no metadata, no extension-name key or a tag
\* other than the two accepted ones is in the returned table at the same
\* index with the same field and the same chunks, whatever happens to the
\* other columns; a table without any tagged column is returned as it is.
C2_PassThrough ==
    /\ output.ok =>
          /\ Len(output.value.fields) = Len(input.fields)
          /\ Len(output.value.columns) = Len(input.columns)
          /\ \A idx \in DOMAIN input.fields :
                ~AcceptedTag(input.fields[idx]) =>
                    /\ output.value.fields[idx] = input.fields[idx]
                    /\ output.value.columns[idx] = input.columns[idx]
    /\ (Settled /\ \A idx \in DOMAIN input.fields : ~AcceptedTag(input.fields[idx]))
          => (output.ok /\ output.value = input)

C2_Witness ==
    /\ output.ok
    /\ Len(input.fields) = 2
    /\ AcceptedTag(input.fields[1])
    /\ output.value.fields[1] # input.fields[1]
    /\ ~AcceptedTag(input.fields[2])
    /\ metadata_truthy(input.fields[2])
    /\ EXT_NAME_KEY \in DOMAIN input.fields[2].metadata.map

(***************************************************************************)
(* C3.                                                                     *)
(***************************************************************************)
\* C3: the returned table has as many fields as the input, every field keeps
\* its name at its index, and the field of every column tagged with either
\* accepted tag carries a native geometry tag.
C3_NamesKept ==
    output.ok =>
        /\ Len(output.value.fields) = Len(input.fields)
        /\ \A idx \in DOMAIN input.fields :
              /\ output.value.fields[idx].name = input.fields[idx].name
              /\ AcceptedTag(input.fields[idx]) => NativeTag(output.value.fields[idx])

(***************************************************************************)
(* C4.                                                                     *)
(***************************************************************************)
\* the state part of C4: once the call has ended, an unconvertible tagged
\* column means no table, and a table means every tagged column converted
C4_NoPartialTable ==
    Settled =>
        /\ (\E idx \in DOMAIN input.fields :
                AcceptedTag(input.fields[idx]) /\ Unconvertible(input.columns[idx]))
              => ~output.ok
        /\ output.ok =>
              \A idx \in DOMAIN input.fields :
                  AcceptedTag(input.fields[idx]) =>
                      /\ NativeTag(output.value.fields[idx])
                      /\ \A c \in DOMAIN output.value.columns[idx] :
                            output.value.columns[idx][c].type # "binary"

\* C4: a call on a table one of whose tagged columns cannot be converted
\* (a malformed payload, an incompatible mix of types) raises and returns no
\* table, also when tagged columns before it were converted; a returned
\* table has every tagged column converted; and no step of the call changes
\* the table the caller passed.
C4_NeverPartial == []C4_NoPartialTable /\ [][input' = input]_vars

C4_Witness ==
    /\ Raised(output)
    /\ Len(input.fields) = 2
    /\ AcceptedTag(input.fields[1])
    /\ HoldsGeometry(input.columns[1])
    /\ ~Unconvertible(input.columns[1])
    /\ AcceptedTag(input.fields[2])
    /\ Unconvertible(input.columns[2])

(***************************************************************************)
(* C5.                                                                     *)
(***************************************************************************)
\* C5: when the conversion of a tagged column fails on a malformed payload
\* or an incompatible mix, the error the call raises names a tagged column
\* that cannot be converted.
C5_ErrorNamesColumn ==
    (Raised(output) /\ output.kind \in {"MalformedPayload", "IncompatibleGeometryMix"})
    => \E idx \in DOMAIN input.fields :
          /\ AcceptedTag(input.fields[idx])
          /\ Unconvertible(input.columns[idx])
          /\ output.column = input.fields[idx].name

(***************************************************************************)
(* C7.                                                                     *)
(***************************************************************************)
\* C7: row j of output chunk i is the geometry of the payload at row j of
\* input chunk i, the output chunks put end to end are the geometries of the
\* input rows in order, and a null payload at a row gives a null geometry at
\* that row.
C7_RowForRow ==
    output.ok =>
        /\ Len(output.value.column) = Len(input.column)
        /\ \A i \in DOMAIN input.column :
              /\ Len(output.value.column[i].rows) = Len(input.column[i].rows)
              /\ \A j \in DOMAIN input.column[i].rows :
                    output.value.column[i].rows[j] = ExpectedRow(input.column[i].rows[j])
        /\ RowsOf(output.value.column)
              = [r \in DOMAIN RowsOf(input.column) |-> ExpectedRow(RowsOf(input.column)[r])]

C7_Witness ==
    /\ output.ok
    /\ Len(input.column) = 3
    /\ \A i \in DOMAIN input.column : input.column[i].rows # <<>>
    /\ input.column[2].rows[1] = NullPayload
    /\ input.column[1].rows[1] # input.column[3].rows[1]

(***************************************************************************)
(* C8.                                                                     *)
(***************************************************************************)
\* C8: every chunk of a returned column has the one geometry type the
\* returned field is tagged with, the narrowest that holds every geometry of
\* the column; a column with a chunk of MultiPoint payloads only and a chunk
\* of Point payloads only is returned, every chunk of multipoint type, with
\* its chunk lengths unchanged.
C8_OneTypePerColumn ==
    /\ output.ok =>
          \A i \in DOMAIN output.value.column :
              /\ output.value.column[i].type = output.value.field.metadata.map[EXT_NAME_KEY]
              /\ HoldsGeometry(input.column) =>
                    output.value.column[i].type = ExpectedTag(WkbTypes(input.column))
    /\ (Settled /\ WideningScenario(input.column)) =>
          /\ output.ok
          /\ \A i \in DOMAIN output.value.column :
                output.value.column[i].type = "geoarrow.multipoint"
          /\ ChunkLengths(output.value.column) = ChunkLengths(input.column)

C8_Witness ==
    /\ output.ok
    /\ WideningScenario(input.column)
    /\ Len(input.column) = 2
    /\ Len(input.column[1].rows) = 2

(***************************************************************************)
(* C9.                                                                     *)
(***************************************************************************)
\* C9: the CRS string of the input field's metadata is the CRS of the
\* returned field's metadata; an input field without a CRS key or without
\* metadata gives a returned field without a CRS key, and its column is
\* converted all the same.
C9_CrsPropagated ==
    /\ output.ok =>
          IF HasCrs(input.field)
          THEN /\ CRS_KEY \in DOMAIN output.value.field.metadata.map
               /\ output.value.field.metadata.map[CRS_KEY] = input.field.metadata.map[CRS_KEY]
          ELSE CRS_KEY \notin DOMAIN output.value.field.metadata.map
    /\ (/\ Settled
        /\ ~HasCrs(input.field)
        /\ HoldsGeometry(input.column)
        /\ ~Unconvertible(input.column)) => output.ok

C9_Witness ==
    /\ output.ok
    /\ HasCrs(input.field)
    /\ input.field.metadata.map[CRS_KEY] = "OGC:CRS84"
    /\ HoldsGeometry(input.column)

(***************************************************************************)
(* C10.                                                                    *)
(***************************************************************************)
\* C10: after any assignments to the table and the accessors of a layer,
\* every accessor that holds an array or a chunked array has the row count
\* of the layer's table.
C10_AccessorsMatchTable ==
    \A a \in DOMAIN layer.accessors :
        is_arrow_array(layer.accessors[a]) => layer.accessors[a].len = layer.table_len

====
